---------------------------- MODULE Spec2Model ----------------------------
(***************************************************************************)
(* Verification model of the workflow_rust crate.                          *)
(*                                                                         *)
(*   Part I   InMemoryAdapter (src/workflow/src/persistence.rs)            *)
(*   Part II  HighPerformanceWorkflowEngine                                *)
(*            (src/workflow/src/rust190/performance.rs)                    *)
(*   Part III EventHistory (src/workflow/src/temporal/event.rs)            *)
(*   Part IV  Retry policy (src/workflow/src/temporal/activity.rs,         *)
(*            error.rs; the retry loop itself is specified in spec.md 4.3) *)
(*                                                                         *)
(* Every part has its own specification; the variables of the other parts  *)
(* stay at their initial value.                                            *)
(***************************************************************************)
EXTENDS Integers, Sequences, FiniteSets, TLC

None == "none"

(***************************************************************************)
(* Bounds                                                                  *)
(***************************************************************************)
\* number of put_idempotency_key calls made in all
MaxPuts == 3
\* largest value of the wall clock (seconds)
MaxTime == 3

\* engine calls made in all
MaxOps == 4
\* largest number of steps of a workflow definition
MaxSteps == 2

\* longest event history
MaxLen == 3
\* largest EventId a caller puts into an event
MaxEventId == 2

\* largest max_attempts of a retry policy
MaxAttempts == 4
\* save_state calls made
MaxSaves == 3
\* sessions created
MaxSessions == 2
\* items of the input stream
MaxItems == 3
\* HighPerformanceStreamProcessor.workers
MaxWorkers == 2
\* tasks arriving at the worker
MaxTasks == 3
\* largest cap of a pool
MaxCap == 2
\* record_metrics calls made
MaxRecords == 3
\* length of ControlFlowProcessor.data
MaxData == 3
\* middlewares registered
MaxMiddlewares == 3

\* concurrent callers of the adapter
Callers == {"c1", "c2"}
\* idempotency keys in use
Keys == {"k1", "k2"}
\* ttl_seconds arguments in use
Ttls == {1, 2}
\* tokio tasks sharing one engine
Tasks == {"t1", "t2"}
\* workflow names in use
WfNames == {"wf"}
\* execution ids in use
ExecIds == {"e1", "e2"}
\* std::mem::size_of::<WorkflowExecution>() on a 64-bit target
SizeOfWorkflowExecution == 96
\* std::mem::size_of::<WorkflowStep>() on a 64-bit target
SizeOfWorkflowStep == 72

VARIABLES
    \* ---- Part I: InMemoryAdapter ----
    keys,        \* InMemoryAdapter.keys : HashMap<String, i64>
    keysLock,    \* holder of the write lock of `keys`, or None
    clock,       \* chrono::Utc::now().timestamp()
    putPc,       \* position of each caller inside put_idempotency_key
    putKey,      \* argument `key` of the call in progress
    putTtl,      \* argument `_ttl_seconds` of the call in progress
    putNow,      \* local `now` of the call in progress
    putCount,    \* calls started so far
    putSeen,     \* number of calls that had returned when the call in progress began
    putLog       \* returned calls, in the order of their critical sections

varsIdem == <<keys, keysLock, clock, putPc, putKey, putTtl, putNow, putCount, putSeen,
              putLog>>

VARIABLES
    \* ---- Part II: HighPerformanceWorkflowEngine ----
    workflows,   \* engine.workflows : HashMap<String, WorkflowDefinition>
    executions,  \* engine.executions : HashMap<String, WorkflowExecution>
    metrics,     \* engine.monitor.metrics : HashMap<String, PerformanceMetrics>
    engPc,       \* position of each task inside the engine method it runs
    eName,       \* argument `workflow_name` of start_execution
    eId,         \* argument `execution_id`
    eStep,       \* argument `step_index` of execute_step
    eExec,       \* local `execution` of execute_step (the cloned record)
    eWf,         \* local `workflow` of execute_step (the cloned definition)
    eRet,        \* result of the last call of each task
    eOps,        \* calls started so far
    eCancelled   \* cancel_execution returned Ok on the record a step has read

varsEngine == <<workflows, executions, metrics, engPc, eName, eId, eStep, eExec,
                eWf, eRet, eOps, eCancelled>>

VARIABLES
    \* ---- Part III: EventHistory ----
    events,      \* EventHistory.events : Vec<WorkflowEvent>
    hCall,       \* the last method called on the history, with its argument
    hRet,        \* what that method returned
    hSeen        \* what events() returned last, while no add_event followed it

varsHistory == <<events, hCall, hRet, hSeen>>

VARIABLES
    \* ---- Part IV: activity retry ----
    policy,      \* the RetryPolicy of the activity call
    attempt,     \* number of the current attempt (ActivityInfo.attempt)
    rState,      \* "running", "waiting" (retry delay pending), "completed", "failed"
    delays,      \* delays[i]: the retry delay scheduled before attempt i+1
    attemptLog   \* attemptLog[i]: outcome of attempt i ("Ok" or the error kind)

varsRetry == <<policy, attempt, rState, delays, attemptLog>>

VARIABLES
    \* ---- Part V: OrderProcessingWorkflow ----
    oPc,          \* position inside OrderProcessingWorkflow::execute
    oOrder,       \* argument `order`
    oResult,      \* local `result` : OrderResult
    oReservation, \* local `reservation.reservation_id`
    oPayment,     \* local `payment.payment_id`
    oCalls,       \* the execute_activity calls made so far, with their outcomes
    oRet          \* what execute returned: "Ok" (with oResult), "Err", or None

varsOrder == <<oPc, oOrder, oResult, oReservation, oPayment, oCalls, oRet>>

VARIABLES
    \* ---- Part VI: InMemoryAdapter state snapshots ----
    states,      \* InMemoryAdapter.states : HashMap<String, StateSnapshot>
    sCall,       \* the last save_state / load_state call, with its argument
    sRet,        \* what that call returned
    sSaves       \* the snapshots passed to save_state so far, in call order

varsState == <<states, sCall, sRet, sSaves>>

VARIABLES
    \* ---- Part VII: InMemoryStorage ----
    stCall,      \* the last call on the storage, with its arguments
    stRet,       \* what that call returned
    stSaved      \* per workflow id: the last (execution, history) saved with Ok

varsStorage == <<stCall, stRet, stSaved>>

VARIABLES
    \* ---- Part VIII: SessionTypesWorkflowEngine ----
    sessions,        \* engine.sessions : HashMap<String, WorkflowSession>
    active_sessions, \* engine.session_manager.active_sessions
    next_id,         \* engine.session_manager.session_factory.next_id
    seCall,          \* the last method called on the engine, with its argument
    seRet,           \* what that method returned
    seLast           \* per session id: the last lifecycle method that acted on it

varsSession == <<sessions, active_sessions, next_id, seCall, seRet, seLast>>

VARIABLES
    \* ---- Part IX: HighPerformanceStreamProcessor::process_stream_parallel ----
    psPc,        \* "idle", "running" (the stream is being collected), "done"
    psWorkers,   \* self.workers
    psItems,     \* the items of the argument `stream`, in input order
    psNext,      \* position of the next item the adapter pulls from the stream
    psInFlight,  \* positions of the items whose futures are in the buffer
    psResults    \* the Vec being collected

varsStream == <<psPc, psWorkers, psItems, psNext, psInFlight, psResults>>

VARIABLES
    \* ---- Part X: worker dispatch ----
    wPc,         \* "new" (not built yet) or "polling"
    wConfig,     \* the WorkerConfig of the worker
    wQueue,      \* per pool: the tasks waiting in the task queue, oldest first
    wRunning,    \* per pool: the tasks being executed
    wArrived,    \* number of tasks that have arrived
    wWaited      \* the tasks that arrived while their pool was at full capacity

varsWorker == <<wPc, wConfig, wQueue, wRunning, wArrived, wWaited>>

VARIABLES
    \* ---- Part XI: PerformanceMonitor ----
    mMetrics,    \* monitor.metrics : HashMap<String, PerformanceMetrics>
    mCall,       \* the last method called on the monitor
    mRet,        \* the OverallPerformanceStats the last get_overall_stats returned
    mRecorded    \* the metrics passed to record_metrics so far, in call order

varsMonitor == <<mMetrics, mCall, mRet, mRecorded>>

VARIABLES
    \* ---- Part XII: ControlFlowProcessor ----
    cfPc,        \* "none" before ControlFlowProcessor::new, then "ready"
    cfData,      \* processor.data : Vec<i32>
    cfIndex,     \* processor.current_index
    cfCall,      \* the last method called, its argument and the cursor it found
    cfRet        \* what process_with_control_flow returned last

varsCflow == <<cfPc, cfData, cfIndex, cfCall, cfRet>>

VARIABLES
    \* ---- Part XIII: WorkflowMiddlewareManager and MiddlewareChain ----
    mwPc,         \* "building", then the phase of execute: "before", "after",
                  \* "error" (the handle_error loop), "done"
    mwRegistered, \* manager.middlewares, in registration order
    mwChain,      \* chain.middlewares
    mwPos,        \* position of the loop of the current phase
    mwError,      \* the error `e` of the failed call
    mwLog,        \* the calls made on the middlewares, in call order
    mwRet         \* what execute returned

varsMiddleware == <<mwPc, mwRegistered, mwChain, mwPos, mwError, mwLog, mwRet>>

vars ==
    <<varsIdem, varsEngine, varsHistory, varsRetry, varsOrder,
      varsState, varsStorage, varsSession, varsStream, varsWorker,
      varsMonitor, varsCflow, varsMiddleware>>

(***************************************************************************)
(* Part I.  InMemoryAdapter::put_idempotency_key                           *)
(***************************************************************************)

\* HashMap::contains_key
contains_key(map, k) == k \in DOMAIN map

\* HashMap::insert (overwrites)
insert(map, k, v) == [x \in DOMAIN map \cup {k} |-> IF x = k THEN v ELSE map[x]]

\* a broken lock that admits every caller
LockFreeAlways(lock) == TRUE

\* parking_lot::RwLock::write() blocks until no other holder exists
LockFree(lock) == lock = None

\* what a returned call leaves in the log
PutRecord(c, ret) ==
    [caller |-> c, key |-> putKey[c], ttl |-> putTtl[c], now |-> putNow[c],
     seen |-> putSeen[c], ret |-> ret]

\* the call of caller c returns: its arguments and locals are dropped
PutReturn(c) ==
    /\ putPc' = [putPc EXCEPT ![c] = "idle"]
    /\ putKey' = [putKey EXCEPT ![c] = None]
    /\ putTtl' = [putTtl EXCEPT ![c] = 0]
    /\ putNow' = [putNow EXCEPT ![c] = 0]
    /\ putSeen' = [putSeen EXCEPT ![c] = 0]
    /\ keysLock' = None

InitIdem ==
    /\ keys = << >>
    /\ keysLock = None
    /\ clock = 0
    /\ putPc = [c \in Callers |-> "idle"]
    /\ putKey = [c \in Callers |-> None]
    /\ putTtl = [c \in Callers |-> 0]
    /\ putNow = [c \in Callers |-> 0]
    /\ putCount = 0
    /\ putSeen = [c \in Callers |-> 0]
    /\ putLog = << >>

\* line 59: the call starts and reads the clock
PutNow(c, k, ttl) ==
    /\ putPc[c] = "idle"
    /\ putCount < MaxPuts
    /\ putPc' = [putPc EXCEPT ![c] = "lock"]
    /\ putKey' = [putKey EXCEPT ![c] = k]
    /\ putTtl' = [putTtl EXCEPT ![c] = ttl]
    /\ putNow' = [putNow EXCEPT ![c] = clock]
    /\ putCount' = putCount + 1
    /\ putSeen' = [putSeen EXCEPT ![c] = Len(putLog)]
    /\ UNCHANGED <<keys, keysLock, clock, putLog>>

\* line 60: self.keys.write()
PutLock(c) ==
    /\ putPc[c] = "lock"
    /\ LockFree(keysLock)
    /\ keysLock' = c
    /\ putPc' = [putPc EXCEPT ![c] = "check"]
    /\ UNCHANGED <<keys, clock, putKey, putTtl, putNow, putCount, putSeen, putLog>>

\* line 61: if keys.contains_key(key) { return Ok(false); }
PutCheck(c) ==
    /\ putPc[c] = "check"
    /\ IF contains_key(keys, putKey[c])
       THEN /\ putLog' = Append(putLog, PutRecord(c, FALSE))
            /\ PutReturn(c)
       ELSE /\ putPc' = [putPc EXCEPT ![c] = "insert"]
            /\ UNCHANGED <<putLog, keysLock, putKey, putTtl, putNow, putSeen>>
    /\ UNCHANGED <<keys, clock, putCount>>

\* lines 62-63: keys.insert(key, now); Ok(true)
PutInsert(c) ==
    /\ putPc[c] = "insert"
    /\ keys' = insert(keys, putKey[c], putNow[c])
    /\ putLog' = Append(putLog, PutRecord(c, TRUE))
    /\ PutReturn(c)
    /\ UNCHANGED <<clock, putCount>>

\* the wall clock advances
Tick ==
    /\ clock < MaxTime
    /\ clock' = clock + 1
    /\ UNCHANGED <<keys, keysLock, putPc, putKey, putTtl, putNow, putCount, putSeen,
                   putLog>>

(***************************************************************************)
(* Part II.  HighPerformanceWorkflowEngine                                 *)
(***************************************************************************)

\* HashMap::get, as Option
get(map, k) == IF k \in DOMAIN map THEN map[k] ELSE None

\* enum ExecutionStatus
ExecutionStatus == {"Running", "Completed", "Failed", "Timeout", "Cancelled"}

\* every status but Running ends the execution
Terminal(status) == status \in ExecutionStatus \ {"Running"}

\* WorkflowDefinition, reduced to the number of its steps
WorkflowDefinition(n) == [steps |-> n]

\* the record start_execution creates (lines 182-190)
NewExecution(id, name) ==
    [id |-> id, workflow_name |-> name, status |-> "Running", ended |-> FALSE,
     current_step |-> 0, error_count |-> 0]

\* format!("start_execution_{}", name) / format!("execute_step_{}_{}", name, i)
OperationName(op, name, idx) == [op |-> op, wf |-> name, idx |-> idx]

\* PerformanceMetrics, reduced to the summed fields
PerformanceMetrics(opname, mem) ==
    [operation_name |-> opname, memory_usage |-> mem, error_count |-> 0]

\* PerformanceMonitor::record_metrics
record_metrics(map, m) == insert(map, m.operation_name, m)

\* a range check that lets every index through
OutOfRangeNever(step_index, workflow) == FALSE

\* execute_step, line 233: step_index >= workflow.steps.len()
OutOfRange(step_index, workflow) == step_index >= workflow.steps

\* an update that completes the execution one step too late
StepUpdateLate(execution, step_index, workflow) ==
    LET stepped == [execution EXCEPT !.current_step = step_index + 1]
    IN  IF stepped.current_step > workflow.steps
        THEN [stepped EXCEPT !.status = "Completed", !.ended = TRUE]
        ELSE stepped

\* lines 242-246 of execute_step, applied to the cloned record
StepUpdate(execution, step_index, workflow) ==
    LET stepped == [execution EXCEPT !.current_step = step_index + 1]
    IN  IF stepped.current_step >= workflow.steps
        THEN [stepped EXCEPT !.status = "Completed", !.ended = TRUE]
        ELSE stepped

InitEngine ==
    /\ workflows = << >>
    /\ executions = << >>
    /\ metrics = << >>
    /\ engPc = [t \in Tasks |-> "idle"]
    /\ eName = [t \in Tasks |-> None]
    /\ eId = [t \in Tasks |-> None]
    /\ eStep = [t \in Tasks |-> 0]
    /\ eExec = [t \in Tasks |-> None]
    /\ eWf = [t \in Tasks |-> None]
    /\ eRet = [t \in Tasks |-> None]
    /\ eOps = 0
    /\ eCancelled = [t \in Tasks |-> FALSE]

\* the tasks that have read the record of `id` and not yet written it back
Reading(id) == {t \in Tasks : engPc[t] \in {"step_wf", "step_write"} /\ eId[t] = id}

\* a call returns: its arguments and locals are dropped
Return(t, ret) ==
    /\ eRet' = [eRet EXCEPT ![t] = ret]
    /\ engPc' = [engPc EXCEPT ![t] = "idle"]
    /\ eName' = [eName EXCEPT ![t] = None]
    /\ eId' = [eId EXCEPT ![t] = None]
    /\ eStep' = [eStep EXCEPT ![t] = 0]
    /\ eExec' = [eExec EXCEPT ![t] = None]
    /\ eWf' = [eWf EXCEPT ![t] = None]

\* register_workflow (lines 164-167)
RegisterWorkflow(name, n) ==
    /\ ~(contains_key(workflows, name) /\ workflows[name] = WorkflowDefinition(n))
    /\ workflows' = insert(workflows, name, WorkflowDefinition(n))
    /\ UNCHANGED <<executions, metrics, engPc, eName, eId, eStep, eExec, eWf,
                   eRet, eOps, eCancelled>>

\* start_execution, lines 170-179: look the workflow up
StartLookup(t, name, id) ==
    /\ engPc[t] = "idle"
    /\ eOps < MaxOps
    /\ eOps' = eOps + 1
    /\ IF ~contains_key(workflows, name)
       THEN Return(t, "Err")
       ELSE /\ eName' = [eName EXCEPT ![t] = name]
            /\ eId' = [eId EXCEPT ![t] = id]
            /\ eRet' = [eRet EXCEPT ![t] = None]
            /\ engPc' = [engPc EXCEPT ![t] = "start_insert"]
            /\ UNCHANGED <<eStep, eExec, eWf>>
    /\ UNCHANGED <<workflows, executions, metrics, eCancelled>>

\* start_execution, lines 181-195: insert the new record
StartInsert(t) ==
    /\ engPc[t] = "start_insert"
    /\ executions' = insert(executions, eId[t], NewExecution(eId[t], eName[t]))
    /\ engPc' = [engPc EXCEPT ![t] = "start_metrics"]
    /\ eCancelled' = [u \in Tasks |->
                        IF u \in Reading(eId[t]) THEN FALSE ELSE eCancelled[u]]
    /\ UNCHANGED <<workflows, metrics, eName, eId, eStep, eExec, eWf, eRet, eOps>>

\* start_execution, lines 197-209: record the metrics, return Ok
StartMetrics(t) ==
    /\ engPc[t] = "start_metrics"
    /\ metrics' = record_metrics(metrics,
            PerformanceMetrics(OperationName("start_execution", eName[t], 0),
                               SizeOfWorkflowExecution))
    /\ Return(t, "Ok")
    /\ UNCHANGED <<workflows, executions, eOps, eCancelled>>

\* execute_step, lines 213-222: clone the record
StepRead(t, id, idx) ==
    /\ engPc[t] = "idle"
    /\ eOps < MaxOps
    /\ eOps' = eOps + 1
    /\ eCancelled' = [eCancelled EXCEPT ![t] = FALSE]
    /\ IF ~contains_key(executions, id)
       THEN Return(t, "Err")
       ELSE /\ engPc' = [engPc EXCEPT ![t] = "step_wf"]
            /\ eRet' = [eRet EXCEPT ![t] = None]
            /\ eId' = [eId EXCEPT ![t] = id]
            /\ eStep' = [eStep EXCEPT ![t] = idx]
            /\ eExec' = [eExec EXCEPT ![t] = get(executions, id)]
            /\ UNCHANGED <<eName, eWf>>
    /\ UNCHANGED <<workflows, executions, metrics>>

\* execute_step, lines 224-239: clone the definition, check the index, sleep
StepWorkflow(t) ==
    /\ engPc[t] = "step_wf"
    /\ LET workflow == get(workflows, eExec[t].workflow_name)
       IN  IF \/ ~contains_key(workflows, eExec[t].workflow_name)
              \/ OutOfRange(eStep[t], workflow)
           THEN Return(t, "Err")
           ELSE /\ engPc' = [engPc EXCEPT ![t] = "step_write"]
                /\ eWf' = [eWf EXCEPT ![t] = workflow]
                /\ UNCHANGED <<eRet, eName, eId, eStep, eExec>>
    /\ UNCHANGED <<workflows, executions, metrics, eOps, eCancelled>>

\* execute_step, lines 241-252: update the clone and insert it
StepWrite(t) ==
    /\ engPc[t] = "step_write"
    /\ executions' = insert(executions, eId[t], StepUpdate(eExec[t], eStep[t], eWf[t]))
    /\ engPc' = [engPc EXCEPT ![t] = "step_metrics"]
    /\ eCancelled' = [u \in Tasks |->
                        IF u \in Reading(eId[t]) THEN FALSE ELSE eCancelled[u]]
    /\ UNCHANGED <<workflows, metrics, eName, eId, eStep, eExec, eWf, eRet, eOps>>

\* execute_step, lines 254-266: record the metrics, return Ok
StepMetrics(t) ==
    /\ engPc[t] = "step_metrics"
    /\ metrics' = record_metrics(metrics,
            PerformanceMetrics(
                OperationName("execute_step", eExec[t].workflow_name, eStep[t]),
                SizeOfWorkflowStep))
    /\ Return(t, "Ok")
    /\ UNCHANGED <<workflows, executions, eOps, eCancelled>>

\* cancel_execution (lines 281-290), under one write lock
CancelExecution(t, id) ==
    /\ engPc[t] = "idle"
    /\ eOps < MaxOps
    /\ eOps' = eOps + 1
    /\ IF contains_key(executions, id)
       THEN /\ executions' = [executions EXCEPT
                                ![id].status = "Cancelled", ![id].ended = TRUE]
            /\ Return(t, "Ok")
            /\ eCancelled' = [u \in Tasks |->
                                IF u \in Reading(id) THEN TRUE ELSE eCancelled[u]]
       ELSE /\ Return(t, "Err")
            /\ UNCHANGED <<executions, eCancelled>>
    /\ UNCHANGED <<workflows, metrics>>

(***************************************************************************)
(* Part III.  EventHistory                                                 *)
(***************************************************************************)

\* the EventType variants in use (of the nine of enum EventType)
EventTypes == {"WorkflowExecutionStarted", "ActivityTaskScheduled"}

\* struct EventId(pub u64)
EventId(n) == n

\* EventId::zero
EventIdZero == EventId(0)

\* struct WorkflowEvent; the caller fills in every field, the id included
\* (the timestamp, which no method of EventHistory reads, is left out)
WorkflowEvent == [event_id : {EventId(n) : n \in 0..MaxEventId}, event_type : EventTypes]

\* EventHistory::new
EventHistoryNew == << >>

\* a push that replaces the last event
add_event_overwrite(history, event) ==
    IF history = << >> THEN <<event>>
    ELSE [history EXCEPT ![Len(history)] = event]

\* EventHistory::add_event: self.events.push(event)
add_event(history, event) == Append(history, event)

\* EventHistory::len
len(history) == Len(history)

\* EventHistory::is_empty
is_empty(history) == Len(history) = 0

\* a read that takes the events out of the history
after_read_taken(history) == EventHistoryNew

\* events(&self), len(&self), is_empty(&self) borrow the history shared:
\* the call leaves it as it is
after_read(history) == history

\* no events() result is remembered / the remembered result
NotSeen == [valid |-> FALSE, value |-> << >>]
Seen(value) == [valid |-> TRUE, value |-> value]

InitHistory ==
    /\ events = EventHistoryNew
    /\ hCall = [op |-> "new"]
    /\ hRet = None
    /\ hSeen = NotSeen

\* history.add_event(event)
AddEvent(event) ==
    /\ len(events) < MaxLen
    /\ events' = add_event(events, event)
    /\ hCall' = [op |-> "add_event", event |-> event]
    /\ hRet' = None
    /\ hSeen' = NotSeen

\* history.events()
ReadEvents ==
    /\ hCall' = [op |-> "events"]
    /\ hRet' = events
    /\ hSeen' = Seen(events)
    /\ events' = after_read(events)

\* history.len()
ReadLen ==
    /\ hCall' = [op |-> "len"]
    /\ hRet' = len(events)
    /\ events' = after_read(events)
    /\ UNCHANGED hSeen

\* history.is_empty()
ReadIsEmpty ==
    /\ hCall' = [op |-> "is_empty"]
    /\ hRet' = is_empty(events)
    /\ events' = after_read(events)
    /\ UNCHANGED hSeen

(***************************************************************************)
(* Part IV.  Activity retry.  RetryPolicy and ActivityError are the        *)
(* crate's types; the retry loop is the algorithm of spec.md section 4.3.  *)
(* Durations are whole seconds and backoff_coefficient a whole number.     *)
(***************************************************************************)

\* enum ActivityError
ActivityError == {"TemporaryFailure", "ValidationFailed", "ExecutionFailed",
                  "Cancelled", "Timeout", "HeartbeatFailed", "InvalidInput", "Custom"}

\* a default policy with a steeper backoff
RetryPolicyDefaultSteep ==
    [max_attempts |-> 3, initial_interval |-> 1, max_interval |-> 100,
     backoff_coefficient |-> 3, non_retryable_error_types |-> {}]

\* impl Default for RetryPolicy
RetryPolicyDefault ==
    [max_attempts |-> 3, initial_interval |-> 1, max_interval |-> 100,
     backoff_coefficient |-> 2, non_retryable_error_types |-> {}]

\* the policies an activity call is made with
Policies ==
    {RetryPolicyDefault} \cup
    [max_attempts : 1..MaxAttempts, initial_interval : {1, 2}, max_interval : {5, 100},
     backoff_coefficient : {1, 2}, non_retryable_error_types : {{}, {"Timeout"}}]

RECURSIVE Pow(_, _)
\* b^e
Pow(b, e) == IF e = 0 THEN 1 ELSE b * Pow(b, e - 1)

Min(a, b) == IF a <= b THEN a ELSE b

\* delay = min(initial_interval * backoff_coefficient^(attempt-1), max_interval)
RetryDelay(p, n) ==
    Min(p.initial_interval * Pow(p.backoff_coefficient, n - 1), p.max_interval)

\* a policy under which every error is retried
IsRetryableAlways(p, kind) == TRUE

\* ValidationFailed, Cancelled and the listed kinds are not retried
IsRetryable(p, kind) ==
    kind \notin {"ValidationFailed", "Cancelled"} \cup p.non_retryable_error_types

InitRetry ==
    /\ policy \in Policies
    /\ attempt = 1
    /\ rState = "running"
    /\ delays = << >>
    /\ attemptLog = << >>

\* the running attempt returns Ok
AttemptSucceeds ==
    /\ rState = "running"
    /\ attemptLog' = Append(attemptLog, "Ok")
    /\ rState' = "completed"
    /\ UNCHANGED <<policy, attempt, delays>>

\* the running attempt returns Err(kind)
AttemptFails(kind) ==
    /\ rState = "running"
    /\ attemptLog' = Append(attemptLog, kind)
    /\ IF IsRetryable(policy, kind) /\ attempt < policy.max_attempts
       THEN /\ delays' = Append(delays, RetryDelay(policy, attempt))
            /\ rState' = "waiting"
       ELSE /\ rState' = "failed"
            /\ UNCHANGED delays
    /\ UNCHANGED <<policy, attempt>>

\* the retry delay has passed: the next attempt starts
RetryStarts ==
    /\ rState = "waiting"
    /\ attempt' = attempt + 1
    /\ rState' = "running"
    /\ UNCHANGED <<policy, delays, attemptLog>>

(***************************************************************************)
(* Part V.  OrderProcessingWorkflow::execute (examples/ecommerce_order.rs). *)
(* The workflow body is the example's code.  WorkflowContext::              *)
(* execute_activity is a placeholder there, so a call is modelled by what   *)
(* spec.md section 4.3 says it yields: the activity's output, or an error   *)
(* once the retries are used up.                                            *)
(***************************************************************************)

\* the orders submitted: order_id, number of items, total_amount, recipient
Order ==
    [order_id : {"ORD-1", "ORD-2"}, items : {0, 1}, total_amount : {0, 100},
     recipient : {"", "Alice"}]

\* format!("RES-{}", uuid), format!("PAY-{}", uuid), format!("TRK-{}", uuid)
ReservationIds == {"RES-1", "RES-2"}
PaymentIds == {"PAY-1", "PAY-2"}
TrackingNumbers == {"TRK-1"}

\* format!("{:?}", e) of the unit struct WorkflowError
DebugWorkflowError == "WorkflowError"

\* what an execute_activity call yields
ActivityOutcomes == {"Ok", "Err"}

\* ValidateOrderActivity::execute: the validation errors of an order
ValidationErrors(order) ==
    (IF order.items = 0 THEN <<"Order must contain at least one item">> ELSE << >>)
    \o (IF order.total_amount <= 0 THEN <<"Order total must be positive">> ELSE << >>)
    \o (IF order.recipient = "" THEN <<"Recipient name is required">> ELSE << >>)

\* ValidateOrderOutput.is_valid
IsValid(order) == ValidationErrors(order) = << >>

\* validation_errors.join(", "): the pieces of the joined text
RECURSIVE Join(_)
Join(errors) ==
    IF Len(errors) <= 1 THEN errors
    ELSE <<Head(errors), ", ">> \o Join(Tail(errors))

\* OrderStatus; a text is the sequence of its pieces, the empty text is << >>
OrderStatus(kind) == [kind |-> kind, reason |-> << >>]
OrderStatusFailed(reason) == [kind |-> "Failed", reason |-> reason]

\* format!("<prefix>: {:?}", e)
FailedBecause(prefix) == OrderStatusFailed(<<prefix, DebugWorkflowError>>)

\* one execute_activity call: the activity, the id in its input, its outcome
ActivityCall(activity, arg, outcome) ==
    [activity |-> activity, arg |-> arg, outcome |-> outcome]

\* the compensation of a failed payment leaves the reservation in place
PaymentCompensationNone(reservation, released) == << >>

\* the compensation of a failed payment: ReleaseInventoryActivity on the
\* reservation made in step 2; its result is dropped (let _ = ...)
PaymentCompensation(reservation, released) ==
    <<ActivityCall("ReleaseInventory", reservation, released)>>

\* the compensation of a failed shipment: RefundPaymentActivity, then
\* ReleaseInventoryActivity; both results are dropped
ShipmentCompensation(payment, reservation, refunded, released) ==
    <<ActivityCall("RefundPayment", payment, refunded),
      ActivityCall("ReleaseInventory", reservation, released)>>

\* a shipment that leaves the tracking number unset
ShippedNoTracking(result, tracking) ==
    [result EXCEPT !.status = OrderStatus("Shipping")]

\* result.tracking_number = Some(shipment.tracking_number); status = Shipping
Shipped(result, tracking) ==
    [result EXCEPT !.tracking_number = tracking, !.status = OrderStatus("Shipping")]

\* the activities that undo an earlier step
Compensations == {"ReleaseInventory", "RefundPayment"}

InitOrder ==
    /\ oPc = "idle"
    /\ oOrder = None
    /\ oResult = None
    /\ oReservation = None
    /\ oPayment = None
    /\ oCalls = << >>
    /\ oRet = None

\* execute(ctx, order): the initial OrderResult
OrderStart(order) ==
    /\ oPc = "idle"
    /\ oPc' = "validate"
    /\ oOrder' = order
    /\ oResult' = [order_id |-> order.order_id, status |-> OrderStatus("Pending"),
                   payment_id |-> None, tracking_number |-> None,
                   completed_at |-> None]
    /\ UNCHANGED <<oReservation, oPayment, oCalls, oRet>>

\* step 1: ValidateOrderActivity, awaited with `?`
OrderValidate(outcome) ==
    /\ oPc = "validate"
    /\ oCalls' = Append(oCalls, ActivityCall("ValidateOrder", oOrder.order_id, outcome))
    /\ IF outcome = "Err"
       THEN /\ oRet' = "Err"
            /\ oPc' = "done"
            /\ UNCHANGED oResult
       ELSE IF ~IsValid(oOrder)
       THEN /\ oResult' = [oResult EXCEPT
                  !.status = OrderStatusFailed(Join(ValidationErrors(oOrder)))]
            /\ oRet' = "Ok"
            /\ oPc' = "done"
       ELSE /\ oPc' = "reserve"
            /\ UNCHANGED <<oResult, oRet>>
    /\ UNCHANGED <<oOrder, oReservation, oPayment>>

\* step 2: ReserveInventoryActivity
OrderReserve(outcome, reservation) ==
    /\ oPc = "reserve"
    /\ oCalls' = Append(oCalls, ActivityCall("ReserveInventory", oOrder.order_id, outcome))
    /\ IF outcome = "Err"
       THEN /\ oResult' = [oResult EXCEPT
                  !.status = FailedBecause("Inventory reservation failed: ")]
            /\ oRet' = "Ok"
            /\ oPc' = "done"
            /\ UNCHANGED oReservation
       ELSE /\ oReservation' = reservation
            /\ oResult' = [oResult EXCEPT !.status = OrderStatus("InventoryReserved")]
            /\ oPc' = "pay"
            /\ UNCHANGED oRet
    /\ UNCHANGED <<oOrder, oPayment>>

\* step 3: ProcessPaymentActivity, compensated by ReleaseInventoryActivity
OrderPay(outcome, payment, released) ==
    /\ oPc = "pay"
    /\ IF outcome = "Err"
       THEN /\ oCalls' = Append(oCalls, ActivityCall("ProcessPayment", oOrder.order_id, outcome))
                         \o PaymentCompensation(oReservation, released)
            /\ oResult' = [oResult EXCEPT !.status = FailedBecause("Payment failed: ")]
            /\ oRet' = "Ok"
            /\ oPc' = "done"
            /\ UNCHANGED oPayment
       ELSE /\ oCalls' = Append(oCalls, ActivityCall("ProcessPayment", oOrder.order_id, outcome))
            /\ oPayment' = payment
            /\ oResult' = [oResult EXCEPT !.payment_id = payment,
                                          !.status = OrderStatus("PaymentCompleted")]
            /\ oPc' = "ship"
            /\ UNCHANGED oRet
    /\ UNCHANGED <<oOrder, oReservation>>

\* step 4: CreateShipmentActivity, compensated by RefundPaymentActivity and
\* ReleaseInventoryActivity
OrderShip(outcome, tracking, refunded, released) ==
    /\ oPc = "ship"
    /\ IF outcome = "Err"
       THEN /\ oCalls' = Append(oCalls, ActivityCall("CreateShipment", oOrder.order_id, outcome))
                         \o ShipmentCompensation(oPayment, oReservation, refunded, released)
            /\ oResult' = [oResult EXCEPT
                  !.status = FailedBecause("Shipment creation failed: ")]
            /\ oRet' = "Ok"
            /\ oPc' = "done"
       ELSE /\ oCalls' = Append(oCalls, ActivityCall("CreateShipment", oOrder.order_id, outcome))
            /\ oResult' = Shipped(oResult, tracking)
            /\ oPc' = "notify"
            /\ UNCHANGED oRet
    /\ UNCHANGED <<oOrder, oReservation, oPayment>>

\* step 5: SendNotificationActivity (result dropped), then Completed
OrderNotify(outcome) ==
    /\ oPc = "notify"
    /\ oCalls' = Append(oCalls, ActivityCall("SendNotification", oOrder.order_id, outcome))
    /\ oResult' = [oResult EXCEPT !.status = OrderStatus("Completed"),
                                  !.completed_at = "now"]
    /\ oRet' = "Ok"
    /\ oPc' = "done"
    /\ UNCHANGED <<oOrder, oReservation, oPayment>>

(***************************************************************************)
(* Part VI.  InMemoryAdapter::save_state and load_state.  Each call holds  *)
(* the lock of `states` for its single statement, so a call is one step    *)
(* and concurrent callers are the interleavings of these steps.            *)
(***************************************************************************)

\* the workflow ids in use
WorkflowIds == {"wf1", "wf2"}

\* struct StateSnapshot
StateSnapshot == [workflow_id : WorkflowIds, state : {"a", "b"}, updated_at : {0, 1}]

\* Option<T>
OptionNone == [some |-> FALSE]
OptionSome(v) == [some |-> TRUE, value |-> v]

\* a save that keeps the snapshot already stored under the id
save_state_keep_first(map, snapshot) ==
    IF contains_key(map, snapshot.workflow_id) THEN map
    ELSE insert(map, snapshot.workflow_id, snapshot)

\* self.states.write().insert(snapshot.workflow_id.clone(), snapshot)
save_state(map, snapshot) == insert(map, snapshot.workflow_id, snapshot)

\* self.states.read().get(workflow_id).cloned()
load_state(map, workflow_id) ==
    IF contains_key(map, workflow_id) THEN OptionSome(map[workflow_id])
    ELSE OptionNone

InitState ==
    /\ states = << >>
    /\ sCall = [op |-> "new"]
    /\ sRet = OptionNone
    /\ sSaves = << >>

\* adapter.save_state(snapshot)
SaveState(snapshot) ==
    /\ Len(sSaves) < MaxSaves
    /\ states' = save_state(states, snapshot)
    /\ sCall' = [op |-> "save_state", workflow_id |-> snapshot.workflow_id]
    /\ sRet' = OptionNone
    /\ sSaves' = Append(sSaves, snapshot)

\* adapter.load_state(workflow_id)
LoadState(workflow_id) ==
    /\ sCall' = [op |-> "load_state", workflow_id |-> workflow_id]
    /\ sRet' = load_state(states, workflow_id)
    /\ UNCHANGED <<states, sSaves>>

(***************************************************************************)
(* Part VII.  InMemoryStorage (temporal/storage.rs), a unit struct: it has *)
(* no field, so its state is empty and only its calls are recorded.        *)
(***************************************************************************)

\* struct WorkflowId, struct RunId
StoredWorkflowIds == {"test", "other"}
RunIds == {"run-1", "run-2"}

\* struct WorkflowExecution { workflow_id, run_id }
WorkflowExecution == [workflow_id : StoredWorkflowIds, run_id : RunIds]

\* the histories handed to the storage: EventHistory values of up to one event
EventHistories == {EventHistoryNew} \cup {add_event(EventHistoryNew, e) : e \in WorkflowEvent}

\* Result<T, StorageError>
ResultOk(v) == [ok |-> TRUE, value |-> v]
ResultErr(e) == [ok |-> FALSE, error |-> e]

\* InMemoryStorage::save_workflow_execution: stores nothing, returns Ok(())
save_workflow_execution(execution, history) == ResultOk(<< >>)

\* InMemoryStorage::load_workflow_execution: Err(StorageError::NotFound)
load_workflow_execution(workflow_id) == ResultErr("NotFound")

InitStorage ==
    /\ stCall = [op |-> "new"]
    /\ stRet = ResultOk(<< >>)
    /\ stSaved = [id \in StoredWorkflowIds |-> OptionNone]

\* storage.save_workflow_execution(&execution, &history)
SaveWorkflowExecution(execution, history) ==
    /\ stCall' = [op |-> "save_workflow_execution", workflow_id |-> execution.workflow_id]
    /\ stRet' = save_workflow_execution(execution, history)
    /\ stSaved' = IF stRet'.ok
                  THEN [stSaved EXCEPT ![execution.workflow_id] =
                           OptionSome(<<execution, history>>)]
                  ELSE stSaved

\* storage.load_workflow_execution(&workflow_id)
LoadWorkflowExecution(workflow_id) ==
    /\ stCall' = [op |-> "load_workflow_execution", workflow_id |-> workflow_id]
    /\ stRet' = load_workflow_execution(workflow_id)
    /\ UNCHANGED stSaved

(***************************************************************************)
(* Part VIII.  SessionTypesWorkflowEngine (rust190/session_types.rs).  The *)
(* lifecycle methods take &mut self, so calls on one engine never overlap. *)
(***************************************************************************)

\* enum SessionState
SessionState == {"Initial", "Active", "Waiting", "Completed", "Failed"}

\* the SessionProtocol variants in use (of the four of enum SessionProtocol)
SessionProtocol == {"RequestResponse", "Stream"}

\* SessionFactory::generate_id: format!("session_{}", id)
SessionIdOf(n) == <<"session_", n>>

\* the session ids the callers pass
SessionIds == {SessionIdOf(n) : n \in 1..MaxSessions}

\* struct WorkflowSession (the participants, which no method reads, left out)
WorkflowSession(id, state, protocol) ==
    [id |-> id, state |-> state, protocol |-> protocol]

\* a start that leaves the state of the session as it is
start_session_idle(map, session_id) == map

\* start_session, lines 110-112: session.state = SessionState::Active
start_session(map, session_id) ==
    IF contains_key(map, session_id)
    THEN [map EXCEPT ![session_id].state = "Active"]
    ELSE map

\* complete_session, lines 136-138: session.state = SessionState::Completed
complete_session(map, session_id) ==
    IF contains_key(map, session_id)
    THEN [map EXCEPT ![session_id].state = "Completed"]
    ELSE map

\* get_session_state: self.sessions.get(session_id).map(|s| &s.state)
get_session_state(map, session_id) ==
    IF contains_key(map, session_id) THEN OptionSome(map[session_id].state)
    ELSE OptionNone

\* an update that never reaches the manager's table
update_session_dropped(manager, map, session_id) == manager

\* SessionManager::update_session with the session just changed, if any
update_session(manager, map, session_id) ==
    IF contains_key(map, session_id)
    THEN insert(manager, session_id, map[session_id])
    ELSE manager

InitSession ==
    /\ sessions = << >>
    /\ active_sessions = << >>
    /\ next_id = 1
    /\ seCall = [op |-> "new"]
    /\ seRet = OptionNone
    /\ seLast = [id \in SessionIds |-> None]

\* engine.create_session(protocol, participants)
CreateSession(protocol) ==
    /\ next_id <= MaxSessions
    /\ LET session_id == SessionIdOf(next_id)
           session == WorkflowSession(session_id, "Initial", protocol)
       IN  /\ next_id' = next_id + 1
           /\ active_sessions' = insert(active_sessions, session_id, session)
           /\ sessions' = insert(sessions, session_id, session)
           /\ seCall' = [op |-> "create_session", session_id |-> session_id]
           /\ seRet' = OptionSome(session_id)
           /\ seLast' = [seLast EXCEPT ![session_id] = "create_session"]

\* engine.start_session(session_id)
StartSession(session_id) ==
    /\ sessions' = start_session(sessions, session_id)
    /\ active_sessions' = update_session(active_sessions, sessions', session_id)
    /\ seCall' = [op |-> "start_session", session_id |-> session_id]
    /\ seRet' = OptionNone
    /\ seLast' = IF contains_key(sessions, session_id)
                 THEN [seLast EXCEPT ![session_id] = "start_session"]
                 ELSE seLast
    /\ UNCHANGED next_id

\* engine.complete_session(session_id)
CompleteSession(session_id) ==
    /\ sessions' = complete_session(sessions, session_id)
    /\ active_sessions' = update_session(active_sessions, sessions', session_id)
    /\ seCall' = [op |-> "complete_session", session_id |-> session_id]
    /\ seRet' = OptionNone
    /\ seLast' = IF contains_key(sessions, session_id)
                 THEN [seLast EXCEPT ![session_id] = "complete_session"]
                 ELSE seLast
    /\ UNCHANGED next_id

\* engine.get_session_state(session_id)
GetSessionState(session_id) ==
    /\ seCall' = [op |-> "get_session_state", session_id |-> session_id]
    /\ seRet' = get_session_state(sessions, session_id)
    /\ UNCHANGED <<sessions, active_sessions, next_id, seLast>>

(***************************************************************************)
(* Part IX.  process_stream_parallel (rust190/async_features.rs):          *)
(* stream.map(processor).buffer_unordered(self.workers).collect().         *)
(* buffer_unordered keeps up to `workers` futures and yields each output   *)
(* when its future completes.                                              *)
(***************************************************************************)

\* the values of the stream items
ItemValues == 1..MaxItems

\* the input streams: up to MaxItems items
Streams == UNION {[1..n -> ItemValues] : n \in 0..MaxItems}

\* the processor of the test: |i| async move { i * 2 }
processor(item) == item * 2

InitStream ==
    /\ psPc = "idle"
    /\ psWorkers = 0
    /\ psItems = << >>
    /\ psNext = 1
    /\ psInFlight = {}
    /\ psResults = << >>

\* HighPerformanceStreamProcessor::new(workers, _).process_stream_parallel(stream, processor)
ProcessStreamParallel(workers, stream) ==
    /\ psPc = "idle"
    /\ psPc' = "running"
    /\ psWorkers' = workers
    /\ psItems' = stream
    /\ UNCHANGED <<psNext, psInFlight, psResults>>

\* buffer_unordered pulls the next item while fewer than `workers` futures
\* are in the buffer
PullItem ==
    /\ psPc = "running"
    /\ psNext <= Len(psItems)
    /\ Cardinality(psInFlight) < psWorkers
    /\ psInFlight' = psInFlight \cup {psNext}
    /\ psNext' = psNext + 1
    /\ UNCHANGED <<psPc, psWorkers, psItems, psResults>>

\* the future of one buffered item completes; its output is yielded and pushed
CompleteItem(i) ==
    /\ psPc = "running"
    /\ i \in psInFlight
    /\ psInFlight' = psInFlight \ {i}
    /\ psResults' = Append(psResults, processor(psItems[i]))
    /\ UNCHANGED <<psPc, psWorkers, psItems, psNext>>

\* the stream is exhausted and the buffer is empty: collect returns the Vec
CollectReturns ==
    /\ psPc = "running"
    /\ psNext > Len(psItems)
    /\ psInFlight = {}
    /\ psPc' = "done"
    /\ UNCHANGED <<psWorkers, psItems, psNext, psInFlight, psResults>>

(***************************************************************************)
(* Part X.  Worker dispatch.  WorkerConfig is the crate's type             *)
(* (temporal/worker.rs); WorkflowWorker is an empty struct there, and the  *)
(* dispatch loop is the one of spec.md section 4.4: two independent        *)
(* bounded pools fed from the task queues.                                 *)
(***************************************************************************)

\* the two pools of a worker
Pools == {"workflow", "activity"}

\* struct WorkerConfig (task_queue left out)
WorkerConfig(workflow_cap, activity_cap) ==
    [max_concurrent_workflow_tasks |-> workflow_cap,
     max_concurrent_activity_tasks |-> activity_cap]

\* impl Default for WorkerConfig
WorkerConfigDefault == WorkerConfig(100, 100)

\* the configurations a worker is built with
WorkerConfigs ==
    {WorkerConfigDefault} \cup
    {WorkerConfig(workflow_cap, activity_cap) :
        workflow_cap \in 1..MaxCap, activity_cap \in 1..MaxCap}

\* the cap of a pool
Cap(pool) ==
    IF pool = "workflow" THEN wConfig.max_concurrent_workflow_tasks
    ELSE wConfig.max_concurrent_activity_tasks

\* a pool that never fills up
HasCapacityAlways(pool) == TRUE

\* a pool takes a task only while it runs fewer tasks than its cap
HasCapacity(pool) == Cardinality(wRunning[pool]) < Cap(pool)

InitWorker ==
    /\ wPc = "new"
    /\ wConfig = WorkerConfigDefault
    /\ wQueue = [pool \in Pools |-> << >>]
    /\ wRunning = [pool \in Pools |-> {}]
    /\ wArrived = 0
    /\ wWaited = {}

\* the worker is built from its configuration
WorkerStarts(config) ==
    /\ wPc = "new"
    /\ wPc' = "polling"
    /\ wConfig' = config
    /\ UNCHANGED <<wQueue, wRunning, wArrived, wWaited>>

\* a task arrives on the task queue of a pool: it is queued, never rejected
TaskArrives(pool) ==
    /\ wPc = "polling"
    /\ wArrived < MaxTasks
    /\ wArrived' = wArrived + 1
    /\ wQueue' = [wQueue EXCEPT ![pool] = Append(@, wArrived + 1)]
    /\ wWaited' = IF HasCapacity(pool) THEN wWaited ELSE wWaited \cup {wArrived + 1}
    /\ UNCHANGED <<wPc, wConfig, wRunning>>

\* the worker takes the oldest waiting task of a pool that has capacity
Dispatch(pool) ==
    /\ wPc = "polling"
    /\ wQueue[pool] # << >>
    /\ HasCapacity(pool)
    /\ wRunning' = [wRunning EXCEPT ![pool] = @ \cup {Head(wQueue[pool])}]
    /\ wQueue' = [wQueue EXCEPT ![pool] = Tail(@)]
    /\ UNCHANGED <<wPc, wConfig, wArrived, wWaited>>

\* a running task ends and frees its slot
TaskFinishes(pool, task) ==
    /\ task \in wRunning[pool]
    /\ wRunning' = [wRunning EXCEPT ![pool] = @ \ {task}]
    /\ UNCHANGED <<wPc, wConfig, wQueue, wArrived, wWaited>>

(***************************************************************************)
(* Part XI.  PerformanceMonitor (rust190/performance.rs).  Each method     *)
(* holds the lock of `metrics` for its whole body, so a call is one step.  *)
(***************************************************************************)

\* the operation names in use
OperationNames == {"test_operation", "other_operation"}

\* the PerformanceMetrics values recorded (the summed fields and the key)
RecordedMetrics ==
    [operation_name : OperationNames, memory_usage : {0, 1024}, error_count : {0, 1}]

\* values().map(|m| m.memory_usage).sum() over the entries under `names`
RECURSIVE SumMemoryUsage(_, _)
SumMemoryUsage(map, names) ==
    IF names = {} THEN 0
    ELSE LET name == CHOOSE n \in names : TRUE
         IN  map[name].memory_usage + SumMemoryUsage(map, names \ {name})

\* values().map(|m| m.error_count).sum() over the entries under `names`
RECURSIVE SumErrorCount(_, _)
SumErrorCount(map, names) ==
    IF names = {} THEN 0
    ELSE LET name == CHOOSE n \in names : TRUE
         IN  map[name].error_count + SumErrorCount(map, names \ {name})

\* PerformanceMonitor::get_overall_stats (times and throughput left out)
get_overall_stats(map) ==
    [total_operations |-> Cardinality(DOMAIN map),
     total_memory_usage |-> SumMemoryUsage(map, DOMAIN map),
     total_errors |-> SumErrorCount(map, DOMAIN map)]

InitMonitor ==
    /\ mMetrics = << >>
    /\ mCall = [op |-> "new"]
    /\ mRet = get_overall_stats(<< >>)
    /\ mRecorded = << >>

\* monitor.record_metrics(m)
RecordMetrics(m) ==
    /\ Len(mRecorded) < MaxRecords
    /\ mMetrics' = record_metrics(mMetrics, m)
    /\ mRecorded' = Append(mRecorded, m)
    /\ mCall' = [op |-> "record_metrics"]
    /\ UNCHANGED mRet

\* monitor.get_overall_stats()
GetOverallStats ==
    /\ mCall' = [op |-> "get_overall_stats"]
    /\ mRet' = get_overall_stats(mMetrics)
    /\ UNCHANGED <<mMetrics, mRecorded>>

(***************************************************************************)
(* Part XII.  ControlFlowProcessor (rust190/stable_apis.rs).  Positions    *)
(* of Vec are counted from 0: data[i] of the code is cfData[i + 1].        *)
(***************************************************************************)

\* the values stored and the targets looked for
DataValues == {1, 2}
Targets == {1, 2, 3}

\* the data a processor is built with
DataVecs == UNION {[1..n -> DataValues] : n \in 0..MaxData}

\* a scan that leaves the cursor on the occurrence it found
RECURSIVE process_with_control_flow_stuck(_, _, _)
process_with_control_flow_stuck(data, current_index, target) ==
    IF current_index >= Len(data)
    THEN [current_index |-> current_index, ret |-> OptionNone]
    ELSE LET value == data[current_index + 1]
         IN  IF value = target
             THEN [current_index |-> current_index, ret |-> OptionSome(value)]
             ELSE process_with_control_flow_stuck(data, current_index + 1, target)

\* ControlFlowProcessor::process_with_control_flow: the loop of lines 104-122;
\* ControlFlow::Continue(value) always takes the Continue arm
RECURSIVE process_with_control_flow(_, _, _)
process_with_control_flow(data, current_index, target) ==
    IF current_index >= Len(data)
    THEN [current_index |-> current_index, ret |-> OptionNone]
    ELSE LET value == data[current_index + 1]
         IN  IF value = target
             THEN [current_index |-> current_index + 1, ret |-> OptionSome(value)]
             ELSE process_with_control_flow(data, current_index + 1, target)

InitCflow ==
    /\ cfPc = "none"
    /\ cfData = << >>
    /\ cfIndex = 0
    /\ cfCall = [op |-> "none", target |-> 0, from |-> 0]
    /\ cfRet = OptionNone

\* ControlFlowProcessor::new(data)
ControlFlowProcessorNew(data) ==
    /\ cfPc = "none"
    /\ cfPc' = "ready"
    /\ cfData' = data
    /\ cfIndex' = 0
    /\ cfCall' = [op |-> "new", target |-> 0, from |-> 0]
    /\ UNCHANGED cfRet

\* processor.process_with_control_flow(target)
ProcessWithControlFlow(target) ==
    /\ cfPc = "ready"
    /\ LET out == process_with_control_flow(cfData, cfIndex, target)
       IN  /\ cfIndex' = out.current_index
           /\ cfRet' = out.ret
    /\ cfCall' = [op |-> "process_with_control_flow", target |-> target,
                  from |-> cfIndex]
    /\ UNCHANGED <<cfPc, cfData>>

\* processor.process_conditionally(condition): reads data, not the cursor
ProcessConditionally ==
    /\ cfPc = "ready"
    /\ cfCall' = [op |-> "process_conditionally", target |-> 0, from |-> cfIndex]
    /\ UNCHANGED <<cfPc, cfData, cfIndex, cfRet>>

(***************************************************************************)
(* Part XIII.  WorkflowMiddlewareManager::create_chain and                 *)
(* MiddlewareChain::execute (middleware/mod.rs).  A middleware is known by *)
(* its registration number; what its methods return is open.               *)
(***************************************************************************)

\* enum MiddlewarePriority: Critical = 0, High = 1, Normal = 2, Low = 3
MiddlewarePriority == 0..3

\* Result<(), String> of before_request, after_request and handle_error
CallOutcomes == {"Ok", "Err"}

\* a registered middleware: its registration number and its priority()
Middleware(id, priority) == [id |-> id, priority |-> priority]

\* the error a failing before_request / after_request returns
MiddlewareFailure(id, phase) == [by |-> id, phase |-> phase]
NoFailure == MiddlewareFailure(0, "none")

\* one call on a middleware: the method, the middleware, the error passed to
\* handle_error, and what the call returned
MiddlewareCall(call, id, error, outcome) ==
    [call |-> call, id |-> id, error |-> error, outcome |-> outcome]

\* a chain in registration order
sort_by_priority_unsorted(middlewares) == middlewares

\* sorted_middlewares.sort_by(|a, b| a.priority().cmp(&b.priority())):
\* a stable sort, each element placed behind those of lower or equal priority
RECURSIVE sort_by_priority(_)
sort_by_priority(middlewares) ==
    IF middlewares = << >> THEN << >>
    ELSE LET n == Len(middlewares)
             last == middlewares[n]
             sorted == sort_by_priority(SubSeq(middlewares, 1, n - 1))
             before == SelectSeq(sorted, LAMBDA m : m.priority <= last.priority)
             after == SelectSeq(sorted, LAMBDA m : m.priority > last.priority)
         IN  before \o <<last>> \o after

\* a handle_error loop that ends at the first handler that fails
after_handle_error_stops(pos, outcome, n) ==
    IF outcome = "Err" THEN n + 1 ELSE pos + 1

\* let _ = error_middleware.handle_error(..): the result is dropped and the
\* loop goes on to the next middleware
after_handle_error(pos, outcome, n) == pos + 1

\* MiddlewareError::ProcessingError(e)
ProcessingError(e) == [kind |-> "ProcessingError", error |-> e]

InitMiddleware ==
    /\ mwPc = "building"
    /\ mwRegistered = << >>
    /\ mwChain = << >>
    /\ mwPos = 1
    /\ mwError = NoFailure
    /\ mwLog = << >>
    /\ mwRet = ResultOk(<< >>)

\* manager.register_middleware(middleware)
RegisterMiddleware(priority) ==
    /\ mwPc = "building"
    /\ Len(mwRegistered) < MaxMiddlewares
    /\ mwRegistered' = Append(mwRegistered, Middleware(Len(mwRegistered) + 1, priority))
    /\ UNCHANGED <<mwPc, mwChain, mwPos, mwError, mwLog, mwRet>>

\* manager.create_chain(context), followed by chain.execute()
CreateChain ==
    /\ mwPc = "building"
    /\ mwChain' = sort_by_priority(mwRegistered)
    /\ mwPc' = "before"
    /\ mwPos' = 1
    /\ UNCHANGED <<mwRegistered, mwError, mwLog, mwRet>>

\* execute, lines 133-141: one before_request call
BeforeRequest(outcome) ==
    /\ mwPc = "before"
    /\ mwPos <= Len(mwChain)
    /\ mwLog' = Append(mwLog,
            MiddlewareCall("before_request", mwChain[mwPos].id, NoFailure, outcome))
    /\ IF outcome = "Err"
       THEN /\ mwError' = MiddlewareFailure(mwChain[mwPos].id, "before_request")
            /\ mwPc' = "error"
            /\ mwPos' = 1
       ELSE /\ mwPos' = mwPos + 1
            /\ UNCHANGED <<mwPc, mwError>>
    /\ UNCHANGED <<mwRegistered, mwChain, mwRet>>

\* the before_request loop is through: the after_request loop begins
BeforeRequestsDone ==
    /\ mwPc = "before"
    /\ mwPos > Len(mwChain)
    /\ mwPc' = "after"
    /\ mwPos' = 1
    /\ UNCHANGED <<mwRegistered, mwChain, mwError, mwLog, mwRet>>

\* execute, lines 144-152: one after_request call
AfterRequest(outcome) ==
    /\ mwPc = "after"
    /\ mwPos <= Len(mwChain)
    /\ mwLog' = Append(mwLog,
            MiddlewareCall("after_request", mwChain[mwPos].id, NoFailure, outcome))
    /\ IF outcome = "Err"
       THEN /\ mwError' = MiddlewareFailure(mwChain[mwPos].id, "after_request")
            /\ mwPc' = "error"
            /\ mwPos' = 1
       ELSE /\ mwPos' = mwPos + 1
            /\ UNCHANGED <<mwPc, mwError>>
    /\ UNCHANGED <<mwRegistered, mwChain, mwRet>>

\* the after_request loop is through: Ok(self.context.clone())
AfterRequestsDone ==
    /\ mwPc = "after"
    /\ mwPos > Len(mwChain)
    /\ mwPc' = "done"
    /\ mwRet' = ResultOk(<< >>)
    /\ UNCHANGED <<mwRegistered, mwChain, mwPos, mwError, mwLog>>

\* execute, lines 136-138 and 147-149: one handle_error call
HandleError(outcome) ==
    /\ mwPc = "error"
    /\ mwPos <= Len(mwChain)
    /\ mwLog' = Append(mwLog,
            MiddlewareCall("handle_error", mwChain[mwPos].id, mwError, outcome))
    /\ mwPos' = after_handle_error(mwPos, outcome, Len(mwChain))
    /\ UNCHANGED <<mwPc, mwRegistered, mwChain, mwError, mwRet>>

\* the handle_error loop is through: Err(MiddlewareError::ProcessingError(e))
HandleErrorsDone ==
    /\ mwPc = "error"
    /\ mwPos > Len(mwChain)
    /\ mwPc' = "done"
    /\ mwRet' = ResultErr(ProcessingError(mwError))
    /\ UNCHANGED <<mwRegistered, mwChain, mwPos, mwError, mwLog>>

(***************************************************************************)
(* Specifications                                                          *)
(***************************************************************************)

\* every part in its state after construction, under any retry policy
InitAnyPolicy ==
    /\ InitIdem /\ InitEngine /\ InitHistory /\ InitRetry
    /\ InitOrder
    /\ InitState
    /\ InitStorage
    /\ InitSession
    /\ InitStream
    /\ InitWorker
    /\ InitMonitor
    /\ InitCflow
    /\ InitMiddleware

\* the same, under the default retry policy
Init == InitAnyPolicy /\ policy = RetryPolicyDefault

\* the parts a specification leaves alone
OnlyIdem ==
    UNCHANGED <<varsEngine, varsHistory, varsRetry, varsOrder, varsState,
                varsStorage, varsSession, varsStream, varsWorker, varsMonitor,
                varsCflow, varsMiddleware>>
OnlyEngine ==
    UNCHANGED <<varsIdem, varsHistory, varsRetry, varsOrder, varsState,
                varsStorage, varsSession, varsStream, varsWorker, varsMonitor,
                varsCflow, varsMiddleware>>
OnlyHistory ==
    UNCHANGED <<varsIdem, varsEngine, varsRetry, varsOrder, varsState,
                varsStorage, varsSession, varsStream, varsWorker, varsMonitor,
                varsCflow, varsMiddleware>>
OnlyRetry ==
    UNCHANGED <<varsIdem, varsEngine, varsHistory, varsOrder, varsState,
                varsStorage, varsSession, varsStream, varsWorker, varsMonitor,
                varsCflow, varsMiddleware>>
OnlyOrder ==
    UNCHANGED <<varsIdem, varsEngine, varsHistory, varsRetry, varsState,
                varsStorage, varsSession, varsStream, varsWorker, varsMonitor,
                varsCflow, varsMiddleware>>
OnlyState ==
    UNCHANGED <<varsIdem, varsEngine, varsHistory, varsRetry, varsOrder,
                varsStorage, varsSession, varsStream, varsWorker, varsMonitor,
                varsCflow, varsMiddleware>>
OnlyStorage ==
    UNCHANGED <<varsIdem, varsEngine, varsHistory, varsRetry, varsOrder,
                varsState, varsSession, varsStream, varsWorker, varsMonitor,
                varsCflow, varsMiddleware>>
OnlySession ==
    UNCHANGED <<varsIdem, varsEngine, varsHistory, varsRetry, varsOrder,
                varsState, varsStorage, varsStream, varsWorker, varsMonitor,
                varsCflow, varsMiddleware>>
OnlyStream ==
    UNCHANGED <<varsIdem, varsEngine, varsHistory, varsRetry, varsOrder,
                varsState, varsStorage, varsSession, varsWorker, varsMonitor,
                varsCflow, varsMiddleware>>
OnlyWorker ==
    UNCHANGED <<varsIdem, varsEngine, varsHistory, varsRetry, varsOrder,
                varsState, varsStorage, varsSession, varsStream, varsMonitor,
                varsCflow, varsMiddleware>>
OnlyMonitor ==
    UNCHANGED <<varsIdem, varsEngine, varsHistory, varsRetry, varsOrder,
                varsState, varsStorage, varsSession, varsStream, varsWorker,
                varsCflow, varsMiddleware>>
OnlyCflow ==
    UNCHANGED <<varsIdem, varsEngine, varsHistory, varsRetry, varsOrder,
                varsState, varsStorage, varsSession, varsStream, varsWorker,
                varsMonitor, varsMiddleware>>
OnlyMiddleware ==
    UNCHANGED <<varsIdem, varsEngine, varsHistory, varsRetry, varsOrder,
                varsState, varsStorage, varsSession, varsStream, varsWorker,
                varsMonitor, varsCflow>>

NextIdem ==
    \/ \E c \in Callers, k \in Keys, ttl \in Ttls : PutNow(c, k, ttl) /\ OnlyIdem
    \/ \E c \in Callers : PutLock(c) /\ OnlyIdem
    \/ \E c \in Callers : PutCheck(c) /\ OnlyIdem
    \/ \E c \in Callers : PutInsert(c) /\ OnlyIdem
    \/ Tick /\ OnlyIdem

NextEngine ==
    \/ \E name \in WfNames, n \in 1..MaxSteps : RegisterWorkflow(name, n) /\ OnlyEngine
    \/ \E t \in Tasks, name \in WfNames, id \in ExecIds :
          StartLookup(t, name, id) /\ OnlyEngine
    \/ \E t \in Tasks : StartInsert(t) /\ OnlyEngine
    \/ \E t \in Tasks : StartMetrics(t) /\ OnlyEngine
    \/ \E t \in Tasks, id \in ExecIds, idx \in 0..MaxSteps :
          StepRead(t, id, idx) /\ OnlyEngine
    \/ \E t \in Tasks : StepWorkflow(t) /\ OnlyEngine
    \/ \E t \in Tasks : StepWrite(t) /\ OnlyEngine
    \/ \E t \in Tasks : StepMetrics(t) /\ OnlyEngine
    \/ \E t \in Tasks, id \in ExecIds : CancelExecution(t, id) /\ OnlyEngine

NextHistory ==
    \/ \E event \in WorkflowEvent : AddEvent(event) /\ OnlyHistory
    \/ ReadEvents /\ OnlyHistory
    \/ ReadLen /\ OnlyHistory
    \/ ReadIsEmpty /\ OnlyHistory

NextRetry ==
    \/ AttemptSucceeds /\ OnlyRetry
    \/ \E kind \in ActivityError : AttemptFails(kind) /\ OnlyRetry
    \/ RetryStarts /\ OnlyRetry

NextOrder ==
    \/ \E order \in Order : OrderStart(order) /\ OnlyOrder
    \/ \E outcome \in ActivityOutcomes : OrderValidate(outcome) /\ OnlyOrder
    \/ \E outcome \in ActivityOutcomes, reservation \in ReservationIds :
          OrderReserve(outcome, reservation) /\ OnlyOrder
    \/ \E outcome \in ActivityOutcomes, payment \in PaymentIds,
          released \in ActivityOutcomes :
          OrderPay(outcome, payment, released) /\ OnlyOrder
    \/ \E outcome \in ActivityOutcomes, tracking \in TrackingNumbers,
          refunded \in ActivityOutcomes, released \in ActivityOutcomes :
          OrderShip(outcome, tracking, refunded, released) /\ OnlyOrder
    \/ \E outcome \in ActivityOutcomes : OrderNotify(outcome) /\ OnlyOrder

\* the in-memory persistence adapter under concurrent callers
SpecIdem ==
    /\ Init
    /\ [][NextIdem]_vars

\* the workflow engine under concurrent tasks
SpecEngine ==
    /\ Init
    /\ [][NextEngine]_vars

\* one event history and its caller
SpecHistory ==
    /\ Init
    /\ [][NextHistory]_vars

\* one activity call under each retry policy
SpecRetry ==
    /\ InitAnyPolicy
    /\ [][NextRetry]_vars

\* one run of the order workflow under every outcome of its activity calls
SpecOrder ==
    /\ Init
    /\ [][NextOrder]_vars

NextState ==
    \/ \E snapshot \in StateSnapshot : SaveState(snapshot) /\ OnlyState
    \/ \E workflow_id \in WorkflowIds : LoadState(workflow_id) /\ OnlyState

\* the snapshot store of the in-memory adapter under any order of calls
SpecState ==
    /\ Init
    /\ [][NextState]_vars

NextStorage ==
    \/ \E execution \in WorkflowExecution, history \in EventHistories :
          SaveWorkflowExecution(execution, history) /\ OnlyStorage
    \/ \E workflow_id \in StoredWorkflowIds :
          LoadWorkflowExecution(workflow_id) /\ OnlyStorage

\* the in-memory workflow storage and its caller
SpecStorage ==
    /\ Init
    /\ [][NextStorage]_vars

NextSession ==
    \/ \E protocol \in SessionProtocol : CreateSession(protocol) /\ OnlySession
    \/ \E session_id \in SessionIds : StartSession(session_id) /\ OnlySession
    \/ \E session_id \in SessionIds : CompleteSession(session_id) /\ OnlySession
    \/ \E session_id \in SessionIds : GetSessionState(session_id) /\ OnlySession

\* one session engine and its caller
SpecSession ==
    /\ Init
    /\ [][NextSession]_vars

NextStream ==
    \/ \E workers \in 1..MaxWorkers, stream \in Streams :
          ProcessStreamParallel(workers, stream) /\ OnlyStream
    \/ PullItem /\ OnlyStream
    \/ \E i \in 1..MaxItems : CompleteItem(i) /\ OnlyStream
    \/ CollectReturns /\ OnlyStream

\* one call of process_stream_parallel under every completion order
SpecStream ==
    /\ Init
    /\ [][NextStream]_vars

NextWorker ==
    \/ \E config \in WorkerConfigs : WorkerStarts(config) /\ OnlyWorker
    \/ \E pool \in Pools : TaskArrives(pool) /\ OnlyWorker
    \/ \E pool \in Pools : Dispatch(pool) /\ OnlyWorker
    \/ \E pool \in Pools, task \in 1..MaxTasks : TaskFinishes(pool, task) /\ OnlyWorker

\* one worker and the tasks arriving on its queues; the worker keeps
\* dispatching while it can and every running task ends
SpecWorker ==
    /\ Init
    /\ [][NextWorker]_vars
    /\ \A pool \in Pools : WF_vars(Dispatch(pool) /\ OnlyWorker)
    /\ \A pool \in Pools, task \in 1..MaxTasks :
          WF_vars(TaskFinishes(pool, task) /\ OnlyWorker)

NextMonitor ==
    \/ \E m \in RecordedMetrics : RecordMetrics(m) /\ OnlyMonitor
    \/ GetOverallStats /\ OnlyMonitor

\* one performance monitor under any order of calls
SpecMonitor ==
    /\ Init
    /\ [][NextMonitor]_vars

NextCflow ==
    \/ \E data \in DataVecs : ControlFlowProcessorNew(data) /\ OnlyCflow
    \/ \E target \in Targets : ProcessWithControlFlow(target) /\ OnlyCflow
    \/ ProcessConditionally /\ OnlyCflow

\* one ControlFlowProcessor and its caller
SpecCflow ==
    /\ Init
    /\ [][NextCflow]_vars

NextMiddleware ==
    \/ \E priority \in MiddlewarePriority : RegisterMiddleware(priority) /\ OnlyMiddleware
    \/ CreateChain /\ OnlyMiddleware
    \/ \E outcome \in CallOutcomes : BeforeRequest(outcome) /\ OnlyMiddleware
    \/ BeforeRequestsDone /\ OnlyMiddleware
    \/ \E outcome \in CallOutcomes : AfterRequest(outcome) /\ OnlyMiddleware
    \/ AfterRequestsDone /\ OnlyMiddleware
    \/ \E outcome \in CallOutcomes : HandleError(outcome) /\ OnlyMiddleware
    \/ HandleErrorsDone /\ OnlyMiddleware

\* one manager, the chain it creates and one execute of that chain
SpecMiddleware ==
    /\ Init
    /\ [][NextMiddleware]_vars

(***************************************************************************)
(* Properties                                                              *)
(***************************************************************************)

\* the returned calls on key k, in the order of their critical sections
CallsOn(k) == SelectSeq(putLog, LAMBDA r : r.key = k)

\* C1: put_idempotency_key is an atomic insert-if-absent: of the calls on one
\* key the first returns true and every later one false, also when the calls
\* overlap, and the key is stored exactly when some call returned true.
C1_AtomicInsertIfAbsent ==
    \A k \in Keys :
        LET calls == CallsOn(k)
        IN  /\ calls # << >> => calls[1].ret = TRUE
            /\ \A i \in 2..Len(calls) : calls[i].ret = FALSE
            /\ contains_key(keys, k) <=> calls # << >>

\* two callers raced on one fresh key: the second call to return had started
\* before any call returned
C1_Witness ==
    \E k \in Keys :
        LET calls == CallsOn(k)
        IN  /\ Len(calls) >= 2
            /\ calls[1].caller # calls[2].caller
            /\ calls[2].seen = 0
            /\ calls[1].ret = TRUE
            /\ calls[2].ret = FALSE

\* C2: once a stored key has outlived its TTL, the next put_idempotency_key
\* with that key returns true again.
C2_ExpiredKeyInsertsAgain ==
    \A i \in 1..Len(putLog) : \A j \in (i + 1)..Len(putLog) :
        ( /\ putLog[i].key = putLog[j].key
          /\ putLog[i].ret = TRUE
          /\ \A m \in (i + 1)..(j - 1) :
                ~(putLog[m].key = putLog[i].key /\ putLog[m].ret = TRUE)
          /\ putLog[j].now > putLog[i].now + putLog[i].ttl )
        => putLog[j].ret = TRUE

\* C3: terminal statuses are sticky: neither the write-back of execute_step nor
\* cancel_execution changes the status of an execution that is Completed,
\* Failed, Timeout or Cancelled.
C3_TerminalSticky ==
    [][ ( \/ \E t \in Tasks : StepWrite(t)
          \/ \E t \in Tasks, id \in ExecIds : CancelExecution(t, id) )
        => \A id \in DOMAIN executions :
              Terminal(executions[id].status)
              => executions'[id].status = executions[id].status ]_vars

\* C4: the event at position i of every reachable history carries EventId i
\* (positions counted from 0): ids start at 0 and rise by one, without gaps
\* or reuse.
C4_EventIdIsPosition ==
    \A i \in 1..Len(events) : events[i].event_id = EventId(i - 1)

\* C5: the history is append-only: every step keeps the earlier history as a
\* prefix, add_event lengthens it by exactly one and puts its argument last,
\* and no other method changes it.
C5_AppendOnly ==
    [][ /\ Len(events') >= Len(events)
        /\ SubSeq(events', 1, Len(events)) = events
        /\ IF hCall'.op = "add_event"
           THEN /\ Len(events') = Len(events) + 1
                /\ events'[Len(events')] = hCall'.event
           ELSE events' = events ]_varsHistory

\* add_event has been called on a history that already held two events
C5_Witness ==
    /\ hCall.op = "add_event"
    /\ Len(events) = 3
    /\ events[3] = hCall.event
    /\ events[3] # events[2]

\* C6: no lost update: when cancel_execution returned Ok on an execution while
\* an execute_step on it was between its read and its write-back, the
\* execution is still Cancelled after the write-back.
C6_NoLostUpdate ==
    [][ \A t \in Tasks :
          (StepWrite(t) /\ eCancelled[t])
          => executions'[eId[t]].status = "Cancelled" ]_vars

\* C7: start_execution with the id of an execution that has reached a
\* terminal status does not bring that execution back to Running.
C7_NoResurrection ==
    [][ \A t \in Tasks :
          ( /\ StartInsert(t)
            /\ contains_key(executions, eId[t])
            /\ Terminal(executions[eId[t]].status) )
          => executions'[eId[t]].status # "Running" ]_vars

\* the delay scheduled before attempt i+1 follows the backoff formula, a retry
\* is scheduled only while attempt < max_attempts, and with max_attempts = 1
\* a failure is terminal
RetryFollowsPolicy ==
    /\ \A i \in 1..Len(delays) :
          delays[i] = Min(policy.initial_interval * Pow(policy.backoff_coefficient, i - 1),
                          policy.max_interval)
    /\ Len(delays) < policy.max_attempts
    /\ Len(attemptLog) <= policy.max_attempts
    /\ attempt <= policy.max_attempts
    /\ (policy.max_attempts = 1 /\ attemptLog # << >> /\ attemptLog[1] # "Ok")
          => (rState = "failed" /\ delays = << >>)

\* under the default policy the delay before attempt 2 is d2 and the delay
\* before attempt 3 is d3
DefaultDelays(d2, d3) ==
    policy = RetryPolicyDefault
    => /\ Len(delays) >= 1 => delays[1] = d2
       /\ Len(delays) >= 2 => delays[2] = d3

C10_NonRetryableEndsAtOnce ==
    \A i \in 1..Len(attemptLog) :
        attemptLog[i] \in {"ValidationFailed", "Cancelled"} \cup
                          policy.non_retryable_error_types
        => /\ i = Len(attemptLog)
           /\ attempt = i
           /\ Len(delays) = i - 1
           /\ rState = "failed"

\* the first attempt returned ValidationFailed under a policy with attempts left
C10_Witness ==
    /\ policy.max_attempts >= 3
    /\ attemptLog = <<"ValidationFailed">>
    /\ delays = << >>
    /\ rState = "failed"

\* the activities called so far, in call order
CalledActivities == [i \in 1..Len(oCalls) |-> oCalls[i].activity]

\* the forward activities whose failure ends the order
ForwardActivities == {"ValidateOrder", "ReserveInventory", "ProcessPayment", "CreateShipment"}

\* the run has ended after validation and reservation succeeded and the
\* payment call failed
PaymentFailedRun ==
    /\ oPc = "done"
    /\ Len(oCalls) >= 3
    /\ oCalls[1].activity = "ValidateOrder" /\ oCalls[1].outcome = "Ok"
    /\ oCalls[2].activity = "ReserveInventory" /\ oCalls[2].outcome = "Ok"
    /\ oCalls[3].activity = "ProcessPayment" /\ oCalls[3].outcome = "Err"

\* C12: when validation and reservation succeed and the payment fails, the
\* workflow calls ReleaseInventory with the reservation id of the earlier
\* reservation, makes no shipment and no notification call, and ends with
\* status Failed whose reason contains "Payment failed".
C12_PaymentFailureCompensated ==
    PaymentFailedRun =>
        /\ oRet = "Ok"
        /\ oResult.status.kind = "Failed"
        /\ \E i \in 1..Len(oResult.status.reason) :
              oResult.status.reason[i] = "Payment failed: "
        /\ \E i \in 4..Len(oCalls) :
              /\ oCalls[i].activity = "ReleaseInventory"
              /\ oCalls[i].arg = oReservation
        /\ oReservation \in ReservationIds
        /\ \A i \in 1..Len(oCalls) :
              oCalls[i].activity \notin {"CreateShipment", "SendNotification"}

\* a payment failed after a reservation, and the run has ended
C12_Witness ==
    /\ PaymentFailedRun
    /\ oReservation = "RES-2"
    /\ oResult.status.kind = "Failed"

\* the run has ended, the order was valid and no forward activity call failed
HappyRun ==
    /\ oPc = "done"
    /\ IsValid(oOrder)
    /\ \A i \in 1..Len(oCalls) :
          oCalls[i].activity \in ForwardActivities => oCalls[i].outcome = "Ok"

\* C13: when validate, reserve, pay and ship all succeed, they are called in
\* that order, each exactly once, no compensating activity is called, and the
\* workflow ends Completed with a payment id and a tracking number.
C13_HappyPath ==
    HappyRun =>
        /\ SubSeq(CalledActivities, 1, 4) =
              <<"ValidateOrder", "ReserveInventory", "ProcessPayment", "CreateShipment">>
        /\ \A i \in 5..Len(oCalls) : oCalls[i].activity \notin ForwardActivities
        /\ \A i \in 1..Len(oCalls) : oCalls[i].activity \notin Compensations
        /\ oRet = "Ok"
        /\ oResult.status.kind = "Completed"
        /\ oResult.tracking_number \in TrackingNumbers
        /\ oResult.payment_id \in PaymentIds

\* a run in which the four forward activities succeeded has ended
C13_Witness ==
    /\ HappyRun
    /\ Len(oCalls) = 5
    /\ oCalls[4].activity = "CreateShipment"

\* C14: in every run in which a validation, reservation, payment or shipment
\* activity call returns an error, the workflow returns a result whose status
\* is Failed with a non-empty reason, never an error return.
C14_ActivityErrorBecomesFailed ==
    (/\ oPc = "done"
     /\ \E i \in 1..Len(oCalls) :
           /\ oCalls[i].activity \in ForwardActivities
           /\ oCalls[i].outcome = "Err")
    => /\ oRet = "Ok"
       /\ oResult.status.kind = "Failed"
       /\ oResult.status.reason # << >>

\* the save_state calls made for one workflow id, in call order
SavesOf(workflow_id) == SelectSeq(sSaves, LAMBDA s : s.workflow_id = workflow_id)

\* the snapshot of the most recent save_state for the id, if any
LastSaved(workflow_id) ==
    IF SavesOf(workflow_id) = << >> THEN OptionNone
    ELSE OptionSome(SavesOf(workflow_id)[Len(SavesOf(workflow_id))])

\* C15: load_state(id) returns None when no snapshot was ever saved for id,
\* and otherwise the snapshot of the most recent save_state for that id.
C15_LoadReturnsLastSave ==
    /\ \A id \in WorkflowIds : load_state(states, id) = LastSaved(id)
    /\ sCall.op = "load_state" => sRet = LastSaved(sCall.workflow_id)

\* a load that follows two different saves for the same id
C15_Witness ==
    /\ sCall.op = "load_state"
    /\ Len(SavesOf(sCall.workflow_id)) = 2
    /\ SavesOf(sCall.workflow_id)[1] # SavesOf(sCall.workflow_id)[2]
    /\ sRet.some

\* C16: after save_workflow_execution(execution, history) returned Ok, a
\* load_workflow_execution of that workflow id returns that execution and
\* that history.
C16_StorageRoundTrip ==
    (/\ stCall.op = "load_workflow_execution"
     /\ stSaved[stCall.workflow_id].some)
    => /\ stRet.ok
       /\ stRet.value = stSaved[stCall.workflow_id].value

\* the methods of EventHistory that only read
ReadOps == {"events", "len", "is_empty"}

\* C17: events(), len() and is_empty() leave the history unchanged, and two
\* events() calls with no add_event between them return identical sequences.
C17_ReadsLeaveHistory ==
    [][/\ hCall'.op \in ReadOps => events' = events
       /\ (hCall'.op = "events" /\ hSeen.valid) => hRet' = hSeen.value]_vars

\* len() called after events() on a history with events: what events()
\* returned is still the content
C17_Witness ==
    /\ hCall.op = "len"
    /\ hSeen.valid
    /\ hSeen.value # << >>
    /\ hSeen.value = events

\* task t writes back the last step of the workflow definition it cloned
WritesLastStep(t) ==
    /\ engPc[t] = "step_write"
    /\ engPc'[t] = "step_metrics"
    /\ eStep[t] + 1 = eWf[t].steps

\* C18: for a registered workflow with n steps, once start_execution has
\* succeeded and execute_step has been called for the step indexes 0..n-1 in
\* order, the status of the execution is Completed: the write-back of step
\* n-1 stores the execution with status Completed and current_step n.
C18_AllStepsComplete ==
    [][\A t \in Tasks :
          WritesLastStep(t) =>
              /\ executions'[eId[t]].status = "Completed"
              /\ executions'[eId[t]].current_step = eWf[t].steps]_vars

\* a two-step workflow was started and its steps 0 and 1 were executed
C18_Witness ==
    \E id \in ExecIds, name \in WfNames :
        /\ contains_key(workflows, name)
        /\ workflows[name].steps = 2
        /\ contains_key(executions, id)
        /\ executions[id].workflow_name = name
        /\ executions[id].status = "Completed"
        /\ executions[id].current_step = 2
        /\ \A op \in {OperationName("start_execution", name, 0)} \cup
                    {OperationName("execute_step", name, idx) : idx \in {0, 1}} :
              contains_key(metrics, op)

\* the state each lifecycle method is said to set
StateSetBy(op) ==
    CASE op = "create_session" -> "Initial"
      [] op = "start_session" -> "Active"
      [] op = "complete_session" -> "Completed"

\* C19: a session made by create_session is Initial, start_session makes it
\* Active, complete_session makes it Completed, and get_session_state reports
\* the state set by the last of these operations on the session.
C19_SessionLifecycle ==
    /\ \A id \in SessionIds :
          /\ contains_key(sessions, id) <=> seLast[id] # None
          /\ contains_key(sessions, id) =>
                get_session_state(sessions, id) = OptionSome(StateSetBy(seLast[id]))
    /\ (seCall.op = "get_session_state" /\ contains_key(sessions, seCall.session_id))
       => seRet = OptionSome(StateSetBy(seLast[seCall.session_id]))

\* get_session_state on a session that was created, started and completed
C19_Witness ==
    /\ seCall.op = "get_session_state"
    /\ seLast[seCall.session_id] = "complete_session"
    /\ seRet = OptionSome("Completed")
    /\ active_sessions[seCall.session_id].state = "Completed"

\* C20: process_stream_parallel returns exactly one result per input item,
\* in input order, whatever the order in which the items complete.
C20_ResultsInInputOrder ==
    psPc = "done" =>
        psResults = [i \in 1..Len(psItems) |-> processor(psItems[i])]

\* task waits in the queue of a pool / is being executed
Waiting(task) == \E pool \in Pools : \E i \in 1..Len(wQueue[pool]) : wQueue[pool][i] = task
Executing(task) == \E pool \in Pools : task \in wRunning[pool]

RECURSIVE RecordedMemory(_)
RecordedMemory(n) ==
    IF n = 0 THEN 0 ELSE mRecorded[n].memory_usage + RecordedMemory(n - 1)
RECURSIVE RecordedErrors(_)
RecordedErrors(n) ==
    IF n = 0 THEN 0 ELSE mRecorded[n].error_count + RecordedErrors(n - 1)

\* C21: after any sequence of record_metrics calls, get_overall_stats reports
\* total_operations equal to the number of metrics recorded, and
\* total_memory_usage and total_errors equal to the sums of memory_usage and
\* error_count over the recorded metrics.
C21_StatsCountEveryRecord ==
    mCall.op = "get_overall_stats" =>
        /\ mRet.total_operations = Len(mRecorded)
        /\ mRet.total_memory_usage = RecordedMemory(Len(mRecorded))
        /\ mRet.total_errors = RecordedErrors(Len(mRecorded))

\* the positions (counted from 1) at or after cursor `from` that hold target
Occurrences(from, target) ==
    {i \in (from + 1)..Len(cfData) : cfData[i] = target}

\* the first of a non-empty set of positions
First(positions) == CHOOSE i \in positions : \A j \in positions : i <= j

\* C22: process_with_control_flow(target) returns Some(target) when target
\* occurs at or after the cursor and leaves the cursor just after that first
\* occurrence, returns None with the cursor at the end when it does not, and
\* over any sequence of calls the cursor never decreases and never exceeds
\* the data length.
C22_ScanFromCursor ==
    /\ cfIndex <= Len(cfData)
    /\ cfIndex >= cfCall.from
    /\ cfCall.op = "process_with_control_flow" =>
          IF Occurrences(cfCall.from, cfCall.target) # {}
          THEN /\ cfRet = OptionSome(cfCall.target)
               /\ cfIndex = First(Occurrences(cfCall.from, cfCall.target))
          ELSE /\ cfRet = OptionNone
               /\ cfIndex = Len(cfData)

\* a second scan, from a cursor inside the data, found the target again
C22_Witness ==
    /\ cfCall.op = "process_with_control_flow"
    /\ cfCall.from > 0
    /\ cfRet = OptionSome(cfCall.target)
    /\ cfIndex > cfCall.from + 1

\* the middlewares of the chain, by registration number
ChainIds == [i \in 1..Len(mwChain) |-> mwChain[i].id]

\* the middlewares a method was called on, in call order
CalledOn(call) ==
    LET calls == SelectSeq(mwLog, LAMBDA c : c.call = call)
    IN  [i \in 1..Len(calls) |-> calls[i].id]

\* positions in the log of the calls of a method
LogPositions(call) == {i \in 1..Len(mwLog) : mwLog[i].call = call}

\* the chain holds the registered middlewares in ascending priority, those
\* of equal priority in registration order
ChainIsSorted ==
    /\ Len(mwChain) = Len(mwRegistered)
    /\ \A i \in 1..Len(mwRegistered) : \E j \in 1..Len(mwChain) : mwChain[j] = mwRegistered[i]
    /\ \A i, j \in 1..Len(mwChain) :
          i < j => \/ mwChain[i].priority < mwChain[j].priority
                   \/ /\ mwChain[i].priority = mwChain[j].priority
                      /\ mwChain[i].id < mwChain[j].id

\* C23: execute on a chain built by create_chain calls before_request of the
\* middlewares in ascending priority order (equal priorities in registration
\* order), and only after all before_request calls succeeded calls
\* after_request of the middlewares in the same order; a run that returns Ok
\* has called both on every middleware.
C23_PriorityOrder ==
    /\ mwPc # "building" => ChainIsSorted
    /\ CalledOn("before_request") = SubSeq(ChainIds, 1, Len(CalledOn("before_request")))
    /\ CalledOn("after_request") = SubSeq(ChainIds, 1, Len(CalledOn("after_request")))
    /\ LogPositions("after_request") # {} =>
          /\ CalledOn("before_request") = ChainIds
          /\ \A i \in LogPositions("before_request") :
                /\ mwLog[i].outcome = "Ok"
                /\ \A j \in LogPositions("after_request") : i < j
    /\ (mwPc = "done" /\ mwRet.ok) =>
          /\ CalledOn("before_request") = ChainIds
          /\ CalledOn("after_request") = ChainIds

\* an execute returned Ok on a chain whose order differs from the
\* registration order and that holds two middlewares of equal priority
C23_Witness ==
    /\ mwPc = "done"
    /\ mwRet.ok
    /\ Len(mwChain) = 3
    /\ mwChain # mwRegistered
    /\ \E i \in 1..2 : mwChain[i].priority = mwChain[i + 1].priority

\* positions in the log of the before_request / after_request calls that
\* returned an error
FailedPositions ==
    {i \in 1..Len(mwLog) :
        /\ mwLog[i].call \in {"before_request", "after_request"}
        /\ mwLog[i].outcome = "Err"}

\* C24: when a before_request or after_request returns an error, execute
\* calls no further before_request or after_request, calls handle_error
\* exactly once on every middleware of the chain (the failing one included,
\* whatever the handle_error calls return), and returns ProcessingError
\* carrying that error.
C24_ErrorHandledByAll ==
    \A f \in FailedPositions :
        /\ \A i \in (f + 1)..Len(mwLog) :
              /\ mwLog[i].call = "handle_error"
              /\ mwLog[i].error = MiddlewareFailure(mwLog[f].id, mwLog[f].call)
        /\ \A i \in 1..f : mwLog[i].call # "handle_error"
        /\ mwPc = "done" =>
              /\ CalledOn("handle_error") = ChainIds
              /\ mwRet = ResultErr(ProcessingError(
                             MiddlewareFailure(mwLog[f].id, mwLog[f].call)))

\* an after_request failed, a handle_error failed too, and execute returned
C24_Witness ==
    /\ mwPc = "done"
    /\ \E f \in FailedPositions : mwLog[f].call = "after_request"
    /\ \E i \in LogPositions("handle_error") : mwLog[i].outcome = "Err"
    /\ Len(CalledOn("handle_error")) = 3

\* C25: failed engine operations change nothing: start_execution with an
\* unregistered workflow name, execute_step with an unknown execution id or
\* with step_index >= the number of steps of the workflow, and
\* cancel_execution with an unknown execution id each return Err and leave
\* the executions table exactly as it was.
C25_FailedOperationsChangeNothing ==
    [][\A t \in Tasks :
          /\ \A name \in WfNames, id \in ExecIds :
                (StartLookup(t, name, id) /\ name \notin DOMAIN workflows)
                => (eRet'[t] = "Err" /\ engPc'[t] = "idle" /\ executions' = executions)
          /\ \A id \in ExecIds, idx \in 0..MaxSteps :
                StepRead(t, id, idx)
                => /\ executions' = executions
                   /\ id \notin DOMAIN executions
                      => (eRet'[t] = "Err" /\ engPc'[t] = "idle")
          /\ (/\ engPc[t] = "step_wf"
              /\ eStep[t] >= workflows[eExec[t].workflow_name].steps
              /\ StepWorkflow(t))
             => (eRet'[t] = "Err" /\ engPc'[t] = "idle" /\ executions' = executions)
          /\ \A id \in ExecIds :
                (CancelExecution(t, id) /\ id \notin DOMAIN executions)
                => (eRet'[t] = "Err" /\ executions' = executions)
          /\ (eRet'[t] = "Err" /\ (engPc[t] # "idle" \/ eRet[t] # "Err"))
             => executions' = executions]_vars

\* both tasks had a call fail while an execution was running, which is
\* still there untouched
C25_Witness ==
    /\ \A t \in Tasks : eRet[t] = "Err" /\ engPc[t] = "idle"
    /\ eOps = 3
    /\ \E id \in ExecIds :
          /\ DOMAIN executions = {id}
          /\ executions[id] = NewExecution(id, executions[id].workflow_name)

\* C26: in every state reached by start_execution, execute_step,
\* cancel_execution and register_workflow, an execution whose status is
\* Completed has current_step equal to the number of steps of its workflow
\* definition and has end_time set, and the current_step of an execution
\* never decreases.
C26_CompletedAtLastStep ==
    [][/\ \A id \in DOMAIN executions' :
             executions'[id].status = "Completed"
             => /\ executions'[id].current_step
                      = workflows'[executions'[id].workflow_name].steps
                /\ executions'[id].ended
       /\ \A id \in DOMAIN executions \cap DOMAIN executions' :
             executions'[id].current_step >= executions[id].current_step]_vars

\* C27: the two copies of session state stay in agreement: after every
\* create_session, start_session and complete_session the engine's session
\* table and the SessionManager's active_sessions table hold the same
\* session ids with the same state for each id.
C27_SessionTablesAgree ==
    /\ DOMAIN sessions = DOMAIN active_sessions
    /\ \A session_id \in DOMAIN sessions :
          sessions[session_id].state = active_sessions[session_id].state

\* two sessions, one completed and one started, each in both tables
C27_Witness ==
    /\ seCall.op = "complete_session"
    /\ \E a, b \in DOMAIN sessions \cap DOMAIN active_sessions :
          /\ seCall.session_id = a
          /\ sessions[a].state = "Completed"
          /\ active_sessions[a].state = "Completed"
          /\ sessions[b].state = "Active"
          /\ active_sessions[b].state = "Active"

====
